---- MODULE Spec2Model ----
(***************************************************************************)
(* Job tracking of the PDF-to-CSV front end.                               *)
(*                                                                         *)
(* Spec       : the reconciliation controller (App with useJobEvents, the  *)
(*              fallback polling effect and the api module's job store).   *)
(* SpecSimple : the simple upload flow (App.jsx, handleUpload and          *)
(*              pollForCompletion).                                        *)
(*                                                                         *)
(* One action is one callback of the event loop: a user interaction, a     *)
(* timer tick, or the continuation that runs when a network call settles.  *)
(* React state setters and the effects they trigger (arming/clearing the   *)
(* poll interval, opening/closing the event stream) are part of the action *)
(* that calls them.                                                        *)
(***************************************************************************)
EXTENDS Integers, Sequences, FiniteSets, TLC

\* ------------------------------------------------------------------ bounds

\* Job ids the server hands out are 1..NumJobs.
NumJobs == 2

\* Network calls (uploads, status requests, file lookups) simultaneously in flight.
MaxInflight == 2

\* ---------------------------------------------------------- program constants

\* uploadPdf: "Keep only last 10 jobs".
MaxStoredJobs == 10

\* uploadPdf: 20 * 1024 * 1024 bytes.
MaxFileSize == 20971520

\* useJobEvents: maxRetries.
maxRetries == 3

\* pollForCompletion: maxAttempts.
maxAttempts == 30

\* ------------------------------------------------------------- JS values

Null == "null"
Undefined == "undefined"

\* JavaScript truthiness of the string-or-null values the model uses.
Falsy(v) == v \in {Null, Undefined, ""}

\* a || b
Or(a, b) == IF Falsy(a) THEN b ELSE a

Jobs == 1..NumJobs

\* jobId state: null / undefined (both falsy) are NoJob.
NoJob == 0

\* ------------------------------------------------------------------ URLs

API_BASE == "http://localhost:8080"

RelativeUrl == "/api/files/download/f1"
AbsoluteUrl == "https://cdn.example/f1.csv"

\* file.downloadUrl.startsWith('http')
StartsWithHttp(u) == u \in {AbsoluteUrl, "http://localhost:8080/api/files/download/f1"}

\* `${API_BASE}${u}`
WithApiBase(u) ==
    IF u = RelativeUrl THEN "http://localhost:8080/api/files/download/f1" ELSE u

\* fullDownloadUrl of handleJobUpdate and of the polling effect.
FullDownloadUrl(u) == IF StartsWithHttp(u) THEN u ELSE WithApiBase(u)

\* ----------------------------------------------------------- the job store

\* Fields whose values are strings (and so may be undefined).
StringFields == {"filename", "status", "execution", "downloadUrl", "error"}

\* A merge that writes the second object alone.
SpreadOverwriting(a, b) == b

\* { ...a, ...b }
Spread(a, b) ==
    [f \in DOMAIN a \cup DOMAIN b |-> IF f \in DOMAIN b THEN b[f] ELSE a[f]]

\* JSON.parse(JSON.stringify(r)): properties whose value is undefined are dropped.
JsonRoundTrip(r) ==
    [f \in {g \in DOMAIN r : ~(g \in StringFields /\ r[g] = Undefined)} |-> r[f]]

\* localStorage.setItem(`job_${id}`, JSON.stringify(value))
SetItem(st, id, value) ==
    [k \in DOMAIN st \cup {id} |-> IF k = id THEN JsonRoundTrip(value) ELSE st[k]]

\* localStorage.removeItem(`job_${id}`)
RemoveItem(st, id) == [k \in DOMAIN st \ {id} |-> st[k]]

\* getStoredJob(id) || {}
ExistingOrEmpty(st, id) == IF id \in DOMAIN st THEN st[id] ELSE <<>>

\* updateStoredJob(id, updates) at time t
updateStoredJob(st, id, updates, t) ==
    SetItem(st, id, Spread(Spread(ExistingOrEmpty(st, id), updates), [updatedAt |-> t]))

\* The same filter with its test inverted: it keeps the id and drops the rest.
WithoutInverted(list, id) == SelectSeq(list, LAMBDA x : x = id)

\* jobList.filter(x => x !== id)
RECURSIVE Without(_, _)
Without(list, id) ==
    IF list = <<>> THEN <<>>
    ELSE IF Head(list) = id THEN Without(Tail(list), id)
    ELSE <<Head(list)>> \o Without(Tail(list), id)

\* jobList.find(x => x === id)
InList(list, id) == \E i \in 1..Len(list) : list[i] = id

\* uploadPdf: the record written for a response that carries a job id.
jobData(resp, t) ==
    [jobId |-> resp.jobId, filename |-> resp.filename, status |-> "processing",
     createdAt |-> t, execution |-> Or(resp.execution, Null)]

\* uploadPdf evicting from the wrong end: the record of the first listed id goes.
PutStoreEvictsFront(st, idx, resp, t) ==
    LET st1 == SetItem(st, resp.jobId, jobData(resp, t))
    IN  IF InList(idx, resp.jobId) THEN st1
        ELSE IF Len(idx) + 1 > MaxStoredJobs THEN RemoveItem(st1, idx[1])
        ELSE st1

\* uploadPdf forgetting the record of the evicted id.
PutStoreKeepsEvicted(st, idx, resp, t) == SetItem(st, resp.jobId, jobData(resp, t))

\* uploadPdf: storage after the record and the job list were written.
PutStore(st, idx, resp, t) ==
    LET st1 == SetItem(st, resp.jobId, jobData(resp, t))
    IN  IF InList(idx, resp.jobId) THEN st1
        ELSE IF Len(idx) + 1 > MaxStoredJobs THEN RemoveItem(st1, idx[Len(idx)])
        ELSE st1

\* uploadPdf without the cap on the job list.
PutIndexUncapped(idx, resp) ==
    IF InList(idx, resp.jobId) THEN idx ELSE <<resp.jobId>> \o idx

\* uploadPdf: the job list after the response was stored.
PutIndex(idx, resp) ==
    IF InList(idx, resp.jobId) THEN idx
    ELSE LET l == <<resp.jobId>> \o idx
         IN  IF Len(l) > MaxStoredJobs THEN SubSeq(l, 1, Len(l) - 1) ELSE l

\* ------------------------------------------------------------ the controller

VARIABLES
    jobId,        \* useState: the active job id, NoJob when null
    status,       \* useState: the status shown for the active job
    filename,     \* useState
    error,        \* useState
    isUploading,  \* useState
    isPolling,    \* useState: polling is armed
    downloadUrl,  \* useState
    execution,    \* useState
    storedJobs,   \* useState: the stored jobs loaded by the initialization effect
    store,        \* localStorage: job id -> parsed value of job_<id>, for the keys present
    jobIndex,     \* localStorage: parsed value of pdf_csv_jobs ([] when absent)
    now,          \* the clock read by new Date()
    sse,          \* useJobEvents: the EventSource of eventSourceRef.current
    connectionAttempts, \* useJobEvents: useState
    openSources,  \* EventSource objects created and not closed
    uploads,      \* POST /api/jobs calls in flight
    polls,        \* job id -> status requests in flight issued for it by the poller
    lookups       \* file lookups (getAllFiles) in flight, each with the handler awaiting it

VARIABLES
    sFile,         \* simple flow: the selected file (Null when none)
    sIsUploading,  \* simple flow: useState isUploading
    sIsProcessing, \* simple flow: useState isProcessing
    sError,        \* simple flow: useState error
    sDownloadUrl,  \* simple flow: useState downloadUrl
    sCurrentJobId, \* simple flow: useState currentJobId
    sProcessStep,  \* simple flow: useState processStep
    sUploading,    \* simple flow: a POST /api/jobs call is in flight
    sChains        \* simple flow: the live poll chains of pollForCompletion

VARIABLES
    apiCall,       \* api module called on its own: the call and what the network did
    apiResult      \* api module called on its own: what the call returned or threw

VARIABLES
    sFileName,              \* simple flow: file?.name, empty while no file is selected
    sLastUploadedFileName,  \* simple flow: lastUploadedFileName
    sDownloadName,          \* simple flow: downloadName
    sSavedAs                \* simple flow: link.download of the last save, empty before

appVars == <<jobId, status, filename, error, isUploading, isPolling, downloadUrl, execution,
            storedJobs>>
storeVars == <<store, jobIndex, now>>
sseVars == <<sse, connectionAttempts, openSources>>
netVars == <<uploads, polls, lookups>>
ctlVars == <<appVars, storeVars, sseVars, netVars>>
nameVars == <<sFileName, sLastUploadedFileName, sDownloadName, sSavedAs>>
simpleVars == <<sFile, sIsUploading, sIsProcessing, sError, sDownloadUrl, sCurrentJobId,
                sProcessStep, sUploading, sChains, nameVars>>
apiVars == <<apiCall, apiResult>>
vars == <<ctlVars, simpleVars, apiVars>>

Terminal == {"done", "error"}

\* No EventSource: eventSourceRef.current is null.
NoSse == [job |-> NoJob, readyState |-> "NONE"]

\* connectSSE for job id j.
connectSSE(j, attempts) ==
    IF attempts >= maxRetries THEN NoSse ELSE [job |-> j, readyState |-> "CONNECTING"]

\* 1 when the EventSource conn is not closed, else 0.
LiveCount(conn) == IF conn.readyState \in {"CONNECTING", "OPEN"} THEN 1 ELSE 0

\* A cleanup that closes nothing.
EffectCleanupClosesNothing(conn) == 0

\* The EventSource objects the effect cleanup closes: the one of
\* eventSourceRef.current, when it is not closed already.
EffectCleanupCloses(conn) == LiveCount(conn)

\* The effect without its cleanup on a job id that became null: the connection of
\* the job that was left stays.
JobEventsEffectNoCleanup(old, new, conn, attempts) ==
    IF new = old THEN conn
    ELSE IF new = NoJob THEN conn
    ELSE connectSSE(new, attempts)

\* The effect of useJobEvents when the render's jobId goes from old to new:
\* the cleanup closes the current connection, then the effect body connects.
JobEventsEffect(old, new, conn, attempts) ==
    IF new = old THEN conn
    ELSE IF new = NoJob THEN NoSse
    ELSE connectSSE(new, attempts)

\* The EventSource objects not closed after the effect of useJobEvents ran for a
\* jobId going from old to new, n being their number before: the cleanup closes
\* the current one, the effect body creates one unless connectSSE returns early.
SourcesAfterEffect(old, new, conn, attempts, n) ==
    IF new = old THEN n
    ELSE IF new = NoJob THEN n - EffectCleanupCloses(conn)
    ELSE n - EffectCleanupCloses(conn) + LiveCount(connectSSE(new, attempts))

\* The guard without its test of the status: the interval outlives 'processing'.
PollTimerArmedAnyStatus == jobId # NoJob /\ isPolling

\* The guard of the fallback polling effect: the interval exists exactly while it holds.
PollTimerArmed == jobId # NoJob /\ isPolling /\ status = "processing"

\* Network calls in flight.
RECURSIVE SumPolls(_)
SumPolls(S) == IF S = {} THEN 0 ELSE LET j == CHOOSE x \in S : TRUE IN polls[j] + SumPolls(S \ {j})
Inflight == uploads + SumPolls(Jobs) + Cardinality(lookups)

\* No file: handleUpload's and uploadPdf's !file.
NoFile == [type |-> Null, size |-> 0]

\* What the Uploader's dropzone hands over.
DroppedFiles ==
    [type : {"application/pdf", "image/jpeg", "text/plain"},
     size : {1024, MaxFileSize, MaxFileSize + 1, 26214400}]

\* useDropzone: accept and maxSize.
DropzoneAccepts(f) == f.type \in {"application/pdf", "image/jpeg"} /\ f.size <= MaxFileSize

\* Uploader.onDrop: the message of a rejection.
RejectionMessage(f) ==
    IF f.size > MaxFileSize THEN "File too large (max 20MB)"
    ELSE "Only PDF and image files (JPEG, JPG) are allowed"

\* The validation with the size limit off by one byte: 20 MiB itself is refused.
ValidationCodeInclusive(f) ==
    IF f = NoFile THEN "NO_FILE"
    ELSE IF f.type # "application/pdf" THEN "INVALID_FILE_TYPE"
    ELSE IF f.size >= MaxFileSize THEN "FILE_TOO_LARGE"
    ELSE Null

\* uploadPdf: the validation before the request; Null when the file passes.
ValidationCode(f) ==
    IF f = NoFile THEN "NO_FILE"
    ELSE IF f.type # "application/pdf" THEN "INVALID_FILE_TYPE"
    ELSE IF f.size > MaxFileSize THEN "FILE_TOO_LARGE"
    ELSE Null

\* uploadPdf: the message of the ApiError of a validation code.
ValidationMessage(code) ==
    CASE code = "NO_FILE" -> "No file provided"
      [] code = "INVALID_FILE_TYPE" -> "Only PDF files are allowed"
      [] code = "FILE_TOO_LARGE" -> "File too large (max 20MB)"

\* The Uploader is rendered (!status) and not disabled (isUploading || isPolling).
UploaderEnabled == Falsy(status) /\ ~(isUploading \/ isPolling)

\* Uploader.onDrop with a rejected file: handleUpload(null, uploadError).
DropRejected(f) ==
    /\ UploaderEnabled
    /\ ~DropzoneAccepts(f)
    /\ error' = RejectionMessage(f)
    /\ UNCHANGED <<jobId, status, filename, isUploading, isPolling, downloadUrl, execution>>
    /\ UNCHANGED <<storeVars, sseVars, netVars, simpleVars>>
    /\ UNCHANGED storedJobs
    /\ UNCHANGED apiVars

\* handleUpload(file, null) up to the await of the request: uploadPdf validates and
\* either throws (caught by handleUpload) or issues POST /api/jobs.
HandleUpload(f) ==
    /\ UploaderEnabled
    /\ DropzoneAccepts(f)
    /\ filename' = "inv.pdf"
    /\ IF ValidationCode(f) # Null
       THEN /\ error' = ValidationMessage(ValidationCode(f))
            /\ isUploading' = FALSE
            /\ isPolling' = FALSE
            /\ UNCHANGED uploads
       ELSE /\ Inflight < MaxInflight
            /\ error' = Null
            /\ isUploading' = TRUE
            /\ uploads' = uploads + 1
            /\ UNCHANGED isPolling
    /\ UNCHANGED <<jobId, status, downloadUrl, execution, polls, lookups>>
    /\ UNCHANGED <<storeVars, sseVars, simpleVars>>
    /\ UNCHANGED storedJobs
    /\ UNCHANGED apiVars

\* The bodies POST /api/jobs answers with on success.
UploadResponses ==
    [jobId : Jobs \cup {NoJob}, filename : {"inv.pdf"}, execution : {"exec1"}]

\* POST /api/jobs succeeded: uploadPdf stores the job, handleUpload seeds the state.
UploadSucceeded(resp) ==
    /\ uploads > 0
    /\ uploads' = uploads - 1
    /\ IF resp.jobId # NoJob
       THEN /\ store' = PutStore(store, jobIndex, resp, now)
            /\ jobIndex' = PutIndex(jobIndex, resp)
       ELSE UNCHANGED <<store, jobIndex>>
    /\ jobId' = resp.jobId
    /\ status' = "processing"
    /\ execution' = resp.execution
    /\ isUploading' = FALSE
    /\ isPolling' = TRUE
    /\ sse' = JobEventsEffect(jobId, resp.jobId, sse, connectionAttempts)
    /\ openSources' = SourcesAfterEffect(jobId, resp.jobId, sse, connectionAttempts, openSources)
    /\ UNCHANGED <<filename, error, downloadUrl, now, connectionAttempts, polls, lookups>>
    /\ UNCHANGED simpleVars
    /\ UNCHANGED storedJobs
    /\ UNCHANGED apiVars

\* POST /api/jobs failed (an ApiError of apiRequest): handleUpload's catch.
UploadFailed(msg) ==
    /\ uploads > 0
    /\ uploads' = uploads - 1
    /\ isUploading' = FALSE
    /\ isPolling' = FALSE
    /\ error' = msg
    /\ UNCHANGED <<jobId, status, filename, downloadUrl, execution, polls, lookups>>
    /\ UNCHANGED <<storeVars, sseVars, simpleVars>>
    /\ UNCHANGED storedJobs
    /\ UNCHANGED apiVars

\* --------------------------------------------------------------- useJobEvents

\* eventSource.onopen
SseOpen ==
    /\ sse.readyState = "CONNECTING"
    /\ sse' = [sse EXCEPT !.readyState = "OPEN"]
    /\ connectionAttempts' = 0
    /\ UNCHANGED openSources
    /\ UNCHANGED <<appVars, storeVars, netVars, simpleVars>>
    /\ UNCHANGED apiVars

\* EventSource.readyState once close() was called.
ReadyStateAfterClose == "CLOSED"

\* eventSource.onerror: the source is closed, and a retry is scheduled only when
\* readyState is not CLOSED after the close.
SseError ==
    /\ sse.readyState \in {"CONNECTING", "OPEN"}
    /\ sse' = [sse EXCEPT !.readyState = ReadyStateAfterClose]
    /\ openSources' = openSources - LiveCount(sse)
    /\ connectionAttempts' =
          IF ReadyStateAfterClose = "CLOSED" THEN connectionAttempts
          ELSE IF connectionAttempts < maxRetries THEN connectionAttempts + 1
          ELSE connectionAttempts
    /\ UNCHANGED <<appVars, storeVars, netVars, simpleVars>>
    /\ UNCHANGED apiVars

\* Statuses the server reports, on the event stream and on the status endpoint.
ServerStatuses == {"processing", "completed", "done", "error"}

\* The downloadUrl of an update: the server leaves it out (the handlers look the
\* file up instead).
PayloadUrls == {Undefined}

\* The update payloads of the server: the body of GET /api/jobs/{id}/status, and
\* the fields of an event-stream message besides type and jobId.
StatusBodies ==
    {b \in [status : ServerStatuses, ready : BOOLEAN,
            error : {Undefined, "bad scan"}, downloadUrl : PayloadUrls] :
        /\ (b.error # Undefined => b.status = "error")
        /\ (b.ready => b.status \in {"completed", "done"})}

\* An event-stream message carrying payload b.
Message(type, b) ==
    [type |-> type, status |-> b.status, ready |-> b.ready, error |-> b.error,
     downloadUrl |-> b.downloadUrl]

\* The parsed messages of the event stream for the connection's job; an 'error'
\* update carries its error text.
PushMessages ==
    {Message("update", b) : b \in {x \in StatusBodies : x.status = "error" => x.error # Undefined}} \cup
    {Message("connected", b) : b \in {x \in StatusBodies : x.status = "processing"}}

\* eventSource.onmessage with data that JSON.parse rejects: logged and swallowed.
SseUnparsable ==
    /\ sse.readyState = "OPEN"
    /\ UNCHANGED vars

\* handleJobUpdate(data) for data.jobId = j, up to its first await: the state it
\* sets, the storage it leaves, and whether it goes on to await the file lookup.
JobUpdateOutcome(data, j) ==
    IF data.type # "update"
    THEN [status |-> status, isPolling |-> isPolling, error |-> error, store |-> store,
          awaitsLookup |-> FALSE]
    ELSE IF data.status = "completed"
    THEN [status |-> data.status, isPolling |-> FALSE, error |-> error, store |-> store,
          awaitsLookup |-> TRUE]
    ELSE IF data.status = "error"
    THEN [status |-> data.status, isPolling |-> FALSE, error |-> data.error,
          store |-> updateStoredJob(store, j, [status |-> "error", error |-> data.error], now),
          awaitsLookup |-> FALSE]
    ELSE [status |-> data.status, isPolling |-> isPolling, error |-> error, store |-> store,
          awaitsLookup |-> FALSE]

\* The callback finishing a job on status 'completed', as the push handler does,
\* and not on ready with 'done'.
PollOutcomeOnCompleted(b, j) ==
    IF b.status = "completed"
    THEN [status |-> "done", isPolling |-> FALSE, error |-> error, store |-> store,
          awaitsLookup |-> TRUE]
    ELSE IF b.status = "error"
    THEN [status |-> "error", isPolling |-> FALSE, error |-> Or(b.error, "Job failed"),
          store |-> updateStoredJob(store, j,
                       [status |-> "error", error |-> Or(b.error, "Job failed")], now),
          awaitsLookup |-> FALSE]
    ELSE [status |-> status, isPolling |-> isPolling, error |-> error, store |-> store,
          awaitsLookup |-> FALSE]

\* The interval callback for job id j on a resolved status request, up to its first
\* await: the state it sets, the storage it leaves, and whether it goes on to await
\* the file lookup.
PollOutcome(b, j) ==
    IF b.ready /\ b.status = "done"
    THEN [status |-> "done", isPolling |-> FALSE, error |-> error, store |-> store,
          awaitsLookup |-> TRUE]
    ELSE IF b.status = "error"
    THEN [status |-> "error", isPolling |-> FALSE, error |-> Or(b.error, "Job failed"),
          store |-> updateStoredJob(store, j,
                       [status |-> "error", error |-> Or(b.error, "Job failed")], now),
          awaitsLookup |-> FALSE]
    ELSE [status |-> status, isPolling |-> isPolling, error |-> error, store |-> store,
          awaitsLookup |-> FALSE]

\* The file lookups in flight after a handler ran for job j on an update whose
\* downloadUrl is url.
LookupsAfter(out, src, j, url) ==
    IF out.awaitsLookup
    THEN lookups \cup {[src |-> src, job |-> j, downloadUrl |-> url]}
    ELSE lookups

\* eventSource.onmessage: handleJobUpdate(data), data.jobId being the connection's job.
HandleJobUpdate(data) ==
    /\ sse.readyState = "OPEN"
    /\ LET out == JobUpdateOutcome(data, sse.job)
       IN  /\ out.awaitsLookup => Inflight < MaxInflight
           /\ status' = out.status
           /\ isPolling' = out.isPolling
           /\ error' = out.error
           /\ store' = out.store
           /\ lookups' = LookupsAfter(out, "push", sse.job, data.downloadUrl)
    /\ UNCHANGED <<jobId, filename, isUploading, downloadUrl, execution>>
    /\ UNCHANGED <<jobIndex, now, sseVars, uploads, polls, simpleVars>>
    /\ UNCHANGED storedJobs
    /\ UNCHANGED apiVars

\* ------------------------------------------------------- the fallback poller

\* The interval callback fires: getJobStatus(jobId) is issued.
PollTick ==
    /\ PollTimerArmed
    /\ Inflight < MaxInflight
    /\ polls' = [polls EXCEPT ![jobId] = @ + 1]
    /\ UNCHANGED <<appVars, storeVars, sseVars, uploads, lookups, simpleVars>>
    /\ UNCHANGED apiVars

\* The status request of the interval callback whose jobId is j resolved with body b.
PollResponse(j, b) ==
    /\ polls[j] > 0
    /\ polls' = [polls EXCEPT ![j] = @ - 1]
    /\ LET out == PollOutcome(b, j)
       IN  /\ status' = out.status
           /\ isPolling' = out.isPolling
           /\ error' = out.error
           /\ store' = out.store
           /\ lookups' = LookupsAfter(out, "poll", j, b.downloadUrl)
    /\ UNCHANGED <<jobId, filename, isUploading, downloadUrl, execution>>
    /\ UNCHANGED <<jobIndex, now, sseVars, uploads, simpleVars>>
    /\ UNCHANGED storedJobs
    /\ UNCHANGED apiVars

\* HTTP statuses of a failed status request; 0 is a transport failure.
FailureStatuses == {0, 404, 500}

ExpiredMessage == "Job not found. It may have expired. Please upload again."

\* The status request of the interval callback whose jobId is j rejected with an
\* ApiError of status code: the catch of the callback.
PollFailed(j, code) ==
    /\ polls[j] > 0
    /\ polls' = [polls EXCEPT ![j] = @ - 1]
    /\ IF code = 404
       THEN /\ store' = RemoveItem(store, j)
            /\ jobIndex' = Without(jobIndex, j)
            /\ jobId' = NoJob
            /\ status' = Null
            /\ filename' = Null
            /\ isUploading' = FALSE
            /\ isPolling' = FALSE
            /\ downloadUrl' = Null
            /\ execution' = Null
            /\ error' = ExpiredMessage
            /\ sse' = JobEventsEffect(jobId, NoJob, sse, connectionAttempts)
            /\ openSources' = SourcesAfterEffect(jobId, NoJob, sse, connectionAttempts, openSources)
       ELSE UNCHANGED <<appVars, store, jobIndex, sse, openSources>>
    /\ UNCHANGED <<now, connectionAttempts, uploads, lookups, simpleVars>>
    /\ UNCHANGED storedJobs
    /\ UNCHANGED apiVars

\* What the file lookup yields for the job: the downloadUrl of the file found,
\* undefined when no file (or no downloadUrl) is found, or a failed request.
LookupResults == {Undefined, RelativeUrl, "REQUEST_FAILED"}

\* The download URL set from a lookup result.
LookupUrl(r) == IF r \in {Undefined, "REQUEST_FAILED"} THEN Null ELSE FullDownloadUrl(r)

\* getAllFiles settled for the handler l (of a push or poll update): the rest of the
\* handler sets the download URL and merge-updates the stored job.
LookupSettled(l, r) ==
    /\ l \in lookups
    /\ lookups' = lookups \ {l}
    /\ downloadUrl' = LookupUrl(r)
    /\ store' = updateStoredJob(store, l.job,
                   [status |-> "done", downloadUrl |-> l.downloadUrl, ready |-> TRUE], now)
    /\ UNCHANGED <<jobId, status, filename, error, isUploading, isPolling, execution>>
    /\ UNCHANGED <<jobIndex, now, sseVars, uploads, polls, simpleVars>>
    /\ UNCHANGED storedJobs
    /\ UNCHANGED apiVars

\* ------------------------------------------------------------ user operations

\* A reset that also forgets the job: its record and index entry are removed.
ResetStatePurging ==
    /\ status \in {"processing", "done", "error"}
    /\ jobId' = NoJob
    /\ status' = Null
    /\ filename' = Null
    /\ error' = Null
    /\ isUploading' = FALSE
    /\ isPolling' = FALSE
    /\ downloadUrl' = Null
    /\ execution' = Null
    /\ sse' = JobEventsEffect(jobId, NoJob, sse, connectionAttempts)
    /\ openSources' = SourcesAfterEffect(jobId, NoJob, sse, connectionAttempts, openSources)
    /\ store' = RemoveItem(store, jobId)
    /\ jobIndex' = Without(jobIndex, jobId)
    /\ UNCHANGED <<now, storedJobs, connectionAttempts, netVars, simpleVars>>
    /\ UNCHANGED apiVars

\* resetState, from the StatusBar's button (rendered for the statuses it displays).
ResetState ==
    /\ status \in {"processing", "done", "error"}
    /\ jobId' = NoJob
    /\ status' = Null
    /\ filename' = Null
    /\ error' = Null
    /\ isUploading' = FALSE
    /\ isPolling' = FALSE
    /\ downloadUrl' = Null
    /\ execution' = Null
    /\ sse' = JobEventsEffect(jobId, NoJob, sse, connectionAttempts)
    /\ openSources' = SourcesAfterEffect(jobId, NoJob, sse, connectionAttempts, openSources)
    /\ UNCHANGED <<storeVars, connectionAttempts, netVars, simpleVars>>
    /\ UNCHANGED storedJobs
    /\ UNCHANGED apiVars

\* The "Try Again" button of the error alert: setError(null).
TryAgain ==
    /\ ~Falsy(error)
    /\ Falsy(status)
    /\ error' = Null
    /\ UNCHANGED <<jobId, status, filename, isUploading, isPolling, downloadUrl, execution>>
    /\ UNCHANGED <<storeVars, sseVars, netVars, simpleVars>>
    /\ UNCHANGED storedJobs
    /\ UNCHANGED apiVars

\* ------------------------------------------------------- the simple upload flow

\* Files the user can pick or drop in the simple flow.
SimpleFiles == [type : {"application/pdf", "image/jpeg"}, size : {1024, 26214400}]

\* File names and typed names are sequences of tokens: words, a blank, and
\* extensions in either case.
NoName == <<>>

\* String.prototype.toLowerCase on a token.
LowerToken(t) ==
    CASE t = ".CSV" -> ".csv"
      [] t = ".PDF" -> ".pdf"
      [] t = ".JPG" -> ".jpg"
      [] OTHER -> t

\* The name ends, case-insensitively, with one of the extensions exts.
EndsWithExt(name, exts) == name # <<>> /\ LowerToken(name[Len(name)]) \in exts

\* The name without its last token.
ButLast(name) == SubSeq(name, 1, Len(name) - 1)

\* name.replace(/\.csv$/i, '')
StripCsv(name) == IF EndsWithExt(name, {".csv"}) THEN ButLast(name) ELSE name

\* The extensions of /\.(pdf|jpg|jpeg)$/i
SourceExts == {".pdf", ".jpg", ".jpeg"}

\* name.replace(/\.(pdf|jpg|jpeg)$/i, '')
StripSourceExt(name) == IF EndsWithExt(name, SourceExts) THEN ButLast(name) ELSE name

\* name.replace(/\.(pdf|jpg|jpeg)$/i, '.csv')
ReplaceSourceExt(name) ==
    IF EndsWithExt(name, SourceExts) THEN Append(ButLast(name), ".csv") ELSE name

\* name.trim() is the empty string.
TrimIsEmpty(name) == \A i \in DOMAIN name : name[i] = " "

\* handleDownload: the default name, from the file state.
defaultName(fileName) ==
    IF fileName # NoName THEN ReplaceSourceExt(fileName) ELSE <<"converted-file", ".csv">>

\* handleDownload: the name given to link.download.
finalName(fileName, downloadName) ==
    LET nameToUse == IF ~TrimIsEmpty(downloadName) THEN downloadName
                     ELSE defaultName(fileName)
    IN  IF EndsWithExt(nameToUse, {".csv"}) THEN nameToUse ELSE Append(nameToUse, ".csv")

\* Names of the files the user picks.
FileNames ==
    {<<"inv", ".pdf">>, <<"inv", ".PDF">>, <<"inv", ".csv", ".pdf">>,
     <<"inv", ".csv", ".csv", ".pdf">>, <<" ", ".pdf">>}

\* Texts the user types or pastes into the file name editor.
TypedNames ==
    {<<>>, <<" ">>, <<"out">>, <<"out", ".csv">>, <<"out", ".CSV">>,
     <<"out", ".csv", ".csv", ".csv">>}

\* isValidInvoiceFile
isValidInvoiceFile(f) == f # NoFile /\ f.type \in {"application/pdf"}

\* The controls usable while a conversion is being polled.
SimpleIdleWhileProcessing == ~sIsUploading

\* The file input and the drop zone are usable.
SimpleIdle == ~(sIsUploading \/ sIsProcessing)

\* handleFileSelectFromInput(selectedFile), from the file input or a drop.
HandleFileSelectFromInput(f) ==
    /\ SimpleIdle
    /\ IF isValidInvoiceFile(f)
       THEN /\ sFile' = f
            /\ \E name \in FileNames : sFileName' = name
            /\ sError' = Null
            /\ sDownloadUrl' = Null
            /\ sCurrentJobId' = NoJob
            /\ sProcessStep' = 0
       ELSE /\ sError' = "Please select a valid PDF or image invoice file"
            /\ UNCHANGED <<sFile, sFileName, sDownloadUrl, sCurrentJobId, sProcessStep>>
    /\ UNCHANGED <<sLastUploadedFileName, sDownloadName, sSavedAs>>
    /\ UNCHANGED <<sIsUploading, sIsProcessing, sUploading, sChains, ctlVars>>
    /\ UNCHANGED apiVars

\* handleUpload with a file selected, up to the await of POST /api/jobs.
SimpleHandleUpload ==
    /\ Falsy(sDownloadUrl)
    /\ SimpleIdle
    /\ sFile # NoFile
    /\ sIsUploading' = TRUE
    /\ sError' = Null
    /\ sLastUploadedFileName' = sFileName
    /\ sFile' = NoFile
    /\ sFileName' = NoName
    /\ sProcessStep' = 1
    /\ sUploading' = TRUE
    /\ UNCHANGED <<sDownloadName, sSavedAs>>
    /\ UNCHANGED <<sIsProcessing, sDownloadUrl, sCurrentJobId, sChains, ctlVars>>
    /\ UNCHANGED apiVars

\* A poll chain of pollForCompletion(jobId): its attempts counter and whether its
\* status request is in flight or its timer is pending.
Chain(j, attempts, phase) == [job |-> j, attempts |-> attempts, phase |-> phase]

\* The bodies POST /api/jobs answers with on success (simple flow).
SimpleUploadBodies == [downloadUrl : {Undefined, RelativeUrl}, jobId : Jobs \cup {NoJob}]

\* POST /api/jobs resolved with an ok response: the rest of handleUpload, which
\* starts pollForCompletion when the body carries a job id only. The file of the
\* handler's closure is the one whose name it stored in lastUploadedFileName.
SimpleUploadSucceeded(body) ==
    /\ sUploading
    /\ sUploading' = FALSE
    /\ sIsUploading' = FALSE
    /\ IF ~Falsy(body.downloadUrl)
       THEN /\ sIsProcessing' = FALSE
            /\ sProcessStep' = 3
            /\ sDownloadUrl' = body.downloadUrl
            /\ sDownloadName' = StripSourceExt(sLastUploadedFileName)
            /\ UNCHANGED <<sCurrentJobId, sChains, sError>>
       ELSE IF body.jobId # NoJob
       THEN /\ sIsProcessing' = TRUE
            /\ sProcessStep' = 2
            /\ sCurrentJobId' = body.jobId
            /\ sChains' = sChains \cup {Chain(body.jobId, 0, "request")}
            /\ sDownloadName' = StripSourceExt(sLastUploadedFileName)
            /\ UNCHANGED <<sDownloadUrl, sError>>
       ELSE /\ sIsProcessing' = FALSE
            /\ sProcessStep' = 2
            /\ sError' = "Invalid response from server"
            /\ UNCHANGED <<sDownloadUrl, sCurrentJobId, sChains, sDownloadName>>
    /\ UNCHANGED <<sFileName, sLastUploadedFileName, sSavedAs>>
    /\ UNCHANGED <<sFile, ctlVars>>
    /\ UNCHANGED apiVars

\* POST /api/jobs failed (transport failure or a non-ok response): handleUpload's catch.
SimpleUploadFailed(msg) ==
    /\ sUploading
    /\ sUploading' = FALSE
    /\ sIsUploading' = FALSE
    /\ sIsProcessing' = FALSE
    /\ sError' = msg
    /\ UNCHANGED <<sFile, sDownloadUrl, sCurrentJobId, sProcessStep, sChains, ctlVars>>
    /\ UNCHANGED nameVars
    /\ UNCHANGED apiVars

\* The JSON bodies the status endpoint answers with; fetch resolves for every HTTP
\* status, so the body of an error response (no ready, no status) is among them.
SimpleStatusBodies ==
    {b \in [ready : BOOLEAN, status : {"processing", "done", "error", Undefined},
            error : {Undefined, "bad scan"}] :
        /\ (b.error # Undefined => b.status = "error")
        /\ (b.ready => b.status = "done")}

\* poll's catch: the chain ends.
SimplePollCaught(c, msg) ==
    /\ sChains' = sChains \ {c}
    /\ sIsProcessing' = FALSE
    /\ sProcessStep' = 0
    /\ sError' = msg
    /\ UNCHANGED <<sDownloadUrl>>

\* poll: the status request of chain c resolved with JSON body b.
SimplePollResponse(c, b) ==
    /\ c \in sChains
    /\ c.phase = "request"
    /\ IF b.ready
       THEN /\ sChains' = sChains \ {c}
            /\ sIsProcessing' = FALSE
            /\ sProcessStep' = 3
            /\ sDownloadUrl' = "ready"
            /\ UNCHANGED sError
       ELSE IF b.status = "error"
       THEN SimplePollCaught(c, Or(b.error, "Conversion failed"))
       ELSE IF c.attempts >= maxAttempts
       THEN SimplePollCaught(c, "Conversion timeout. Please try again.")
       ELSE /\ sChains' = (sChains \ {c}) \cup {Chain(c.job, c.attempts + 1, "timer")}
            /\ UNCHANGED <<sIsProcessing, sProcessStep, sDownloadUrl, sError>>
    /\ UNCHANGED <<sFile, sIsUploading, sCurrentJobId, sUploading, ctlVars>>
    /\ UNCHANGED nameVars
    /\ UNCHANGED apiVars

\* poll: the status request of chain c failed: fetch rejected (transport failure)
\* or the body is no JSON.
SimplePollFailed(c, msg) ==
    /\ c \in sChains
    /\ c.phase = "request"
    /\ SimplePollCaught(c, msg)
    /\ UNCHANGED <<sFile, sIsUploading, sCurrentJobId, sUploading, ctlVars>>
    /\ UNCHANGED nameVars
    /\ UNCHANGED apiVars

\* setTimeout(poll, 10000) fires: the next status request of chain c is issued.
SimplePollTimer(c) ==
    /\ c \in sChains
    /\ c.phase = "timer"
    /\ sChains' = (sChains \ {c}) \cup {Chain(c.job, c.attempts, "request")}
    /\ UNCHANGED <<sFile, sIsUploading, sIsProcessing, sError, sDownloadUrl, sCurrentJobId,
                   sProcessStep, sUploading, ctlVars>>
    /\ UNCHANGED nameVars
    /\ UNCHANGED apiVars

\* handleReset, from the buttons rendered while (file || downloadUrl) and idle.
HandleReset ==
    /\ sFile # NoFile \/ ~Falsy(sDownloadUrl)
    /\ SimpleIdle
    /\ sFile' = NoFile
    /\ sDownloadUrl' = Null
    /\ sCurrentJobId' = NoJob
    /\ sError' = Null
    /\ sIsUploading' = FALSE
    /\ sIsProcessing' = FALSE
    /\ sProcessStep' = 0
    /\ sFileName' = NoName
    /\ sDownloadName' = <<>>
    /\ UNCHANGED <<sLastUploadedFileName, sSavedAs>>
    /\ UNCHANGED <<sUploading, sChains, ctlVars>>
    /\ UNCHANGED apiVars

\* onChange of the file name editor, rendered while downloadUrl is set.
EditDownloadName(typed) ==
    /\ ~Falsy(sDownloadUrl)
    /\ sDownloadName' = StripCsv(typed)
    /\ UNCHANGED <<sFile, sIsUploading, sIsProcessing, sError, sDownloadUrl, sCurrentJobId,
                   sProcessStep, sUploading, sChains, ctlVars>>
    /\ UNCHANGED <<sFileName, sLastUploadedFileName, sSavedAs>>
    /\ UNCHANGED apiVars

\* handleDownload, from the Download CSV button rendered while downloadUrl is set;
\* it acts only with a current job id. Its requests succeed (ok) and the file is
\* saved under the name computed from the file and downloadName of its closure,
\* or one of them fails and the catch sets the error.
HandleDownload(ok) ==
    /\ ~Falsy(sDownloadUrl)
    /\ sCurrentJobId # NoJob
    /\ IF ok
       THEN /\ sSavedAs' = finalName(sFileName, sDownloadName)
            /\ UNCHANGED sError
       ELSE /\ sError' = "Download failed. Please try again."
            /\ UNCHANGED sSavedAs
    /\ UNCHANGED <<sFile, sIsUploading, sIsProcessing, sDownloadUrl, sCurrentJobId,
                   sProcessStep, sUploading, sChains, ctlVars>>
    /\ UNCHANGED <<sFileName, sLastUploadedFileName, sDownloadName>>
    /\ UNCHANGED apiVars

\* ------------------------------------------------------------- specification

SimpleInit ==
    /\ sFile = NoFile
    /\ sIsUploading = FALSE
    /\ sIsProcessing = FALSE
    /\ sError = Null
    /\ sDownloadUrl = Null
    /\ sCurrentJobId = NoJob
    /\ sProcessStep = 0
    /\ sUploading = FALSE
    /\ sChains = {}
    /\ sFileName = NoName
    /\ sLastUploadedFileName = <<>>
    /\ sDownloadName = <<>>
    /\ sSavedAs = <<>>

\* The controller after its first render and initialization effect on an empty
\* localStorage: nothing to clean up, no stored job to resume.
InitApp ==
    /\ jobId = NoJob
    /\ status = Null
    /\ filename = Null
    /\ error = Null
    /\ isUploading = FALSE
    /\ isPolling = FALSE
    /\ downloadUrl = Null
    /\ execution = Null
    /\ storedJobs = <<>>
    /\ store = <<>>
    /\ jobIndex = <<>>
    /\ now = 0
    /\ sse = NoSse
    /\ connectionAttempts = 0
    /\ openSources = 0
    /\ uploads = 0
    /\ polls = [j \in Jobs |-> 0]
    /\ lookups = {}
    /\ SimpleInit

\* No call of the api module on its own is under way.
NoCall == [kind |-> "none"]

Init ==
    /\ InitApp
    /\ apiCall = NoCall
    /\ apiResult = NoCall

Next ==
    \/ \E f \in DroppedFiles : DropRejected(f)
    \/ \E f \in DroppedFiles : HandleUpload(f)
    \/ \E resp \in UploadResponses : UploadSucceeded(resp)
    \/ \E msg \in {"Failed to fetch"} : UploadFailed(msg)
    \/ SseOpen
    \/ SseError
    \/ SseUnparsable
    \/ \E data \in PushMessages : HandleJobUpdate(data)
    \/ PollTick
    \/ \E j \in Jobs, b \in StatusBodies : PollResponse(j, b)
    \/ \E j \in Jobs, code \in FailureStatuses : PollFailed(j, code)
    \/ \E l \in lookups, r \in LookupResults : LookupSettled(l, r)
    \/ ResetState
    \/ TryAgain

Spec == Init /\ [][Next]_vars

NextSimple ==
    \/ \E f \in SimpleFiles : HandleFileSelectFromInput(f)
    \/ SimpleHandleUpload
    \/ \E body \in SimpleUploadBodies : SimpleUploadSucceeded(body)
    \/ \E msg \in {"Failed to fetch"} : SimpleUploadFailed(msg)
    \/ \E c \in sChains, b \in SimpleStatusBodies : SimplePollResponse(c, b)
    \/ \E c \in sChains, msg \in {"Failed to fetch"} : SimplePollFailed(c, msg)
    \/ \E c \in sChains : SimplePollTimer(c)
    \/ HandleReset
    \/ \E typed \in TypedNames : EditDownloadName(typed)
    \/ \E ok \in BOOLEAN : HandleDownload(ok)

SpecSimple == Init /\ [][NextSimple]_vars

\* ------------------------------------------------- sweep, start-up and resume

\* cleanupStoredJobs: the default maxAge, 24 * 60 * 60 * 1000 ms.
DefaultMaxAge == 86400000

\* The clock moves in steps of the default maxAge, MaxTicks times at most.
MaxTicks == 1
TickMs == DefaultMaxAge

\* cleanupStoredJobs: job && new Date(job.createdAt) > cutoff, for the parsed record
\* rec at time t (a record without createdAt gives an invalid date, which compares false).
NewerThanCutoff(rec, t, maxAge) == "createdAt" \in DOMAIN rec /\ rec.createdAt > t - maxAge

\* cleanupStoredJobs: the id stays in activeJobs.
KeptBySweep(st, id, t, maxAge) == id \in DOMAIN st /\ NewerThanCutoff(st[id], t, maxAge)

\* cleanupStoredJobs: activeJobs, written back as the job list.
activeJobs(st, idx, t, maxAge) == SelectSeq(idx, LAMBDA id : KeptBySweep(st, id, t, maxAge))

\* cleanupStoredJobs: the records left, those of the listed ids that are not kept removed.
SweptStore(st, idx, t, maxAge) ==
    LET removed == {idx[i] : i \in {k \in 1..Len(idx) : ~KeptBySweep(st, idx[k], t, maxAge)}}
    IN  [k \in DOMAIN st \ removed |-> st[k]]

\* getAllStoredJobs: the records of the listed ids, absent ones filtered out.
getAllStoredJobs(st, idx) ==
    LET present == SelectSeq(idx, LAMBDA id : id \in DOMAIN st)
    IN  [i \in 1..Len(present) |-> st[present[i]]]

\* jobs.find(job => job.status === 'processing'): the jobs it can return, first one first.
ProcessingJobs(jobs) == SelectSeq(jobs, LAMBDA job : job.status = "processing")

\* The page is (re)loaded: pending requests and the event stream die with the old
\* page; the first render starts from the useState defaults and the initialization
\* effect sweeps the store, loads the stored jobs and resumes a processing one.
Reload ==
    LET idx1 == activeJobs(store, jobIndex, now, DefaultMaxAge)
        st1 == SweptStore(store, jobIndex, now, DefaultMaxAge)
        jobs == getAllStoredJobs(st1, idx1)
        found == ProcessingJobs(jobs)
    IN  /\ store' = st1
        /\ jobIndex' = idx1
        /\ storedJobs' = jobs
        /\ IF found # <<>>
           THEN /\ jobId' = found[1].jobId
                /\ filename' = found[1].filename
                /\ status' = found[1].status
                /\ execution' = found[1].execution
                /\ isPolling' = TRUE
           ELSE /\ jobId' = NoJob
                /\ filename' = Null
                /\ status' = Null
                /\ execution' = Null
                /\ isPolling' = FALSE
        /\ error' = Null
        /\ isUploading' = FALSE
        /\ downloadUrl' = Null
        /\ connectionAttempts' = 0
        /\ sse' = JobEventsEffect(NoJob, jobId', NoSse, 0)
        /\ openSources' = SourcesAfterEffect(NoJob, jobId', NoSse, 0, 0)
        /\ uploads' = 0
        /\ polls' = [j \in Jobs |-> 0]
        /\ lookups' = {}
        /\ UNCHANGED <<now, simpleVars, apiVars>>

\* The Resume button of entry i of the Recent Jobs list (the first three stored
\* jobs, shown while no status is set).
Resume(i) ==
    /\ Falsy(status)
    /\ i \in 1..Len(storedJobs)
    /\ i <= 3
    /\ storedJobs[i].status = "processing"
    /\ jobId' = storedJobs[i].jobId
    /\ filename' = storedJobs[i].filename
    /\ status' = storedJobs[i].status
    /\ execution' = storedJobs[i].execution
    /\ isPolling' = TRUE
    /\ sse' = JobEventsEffect(jobId, storedJobs[i].jobId, sse, connectionAttempts)
    /\ openSources' = SourcesAfterEffect(jobId, storedJobs[i].jobId, sse, connectionAttempts, openSources)
    /\ UNCHANGED <<error, isUploading, downloadUrl, storedJobs>>
    /\ UNCHANGED <<storeVars, connectionAttempts, netVars, simpleVars>>
    /\ UNCHANGED apiVars

\* Time passes.
AdvanceClock ==
    /\ now < MaxTicks * TickMs
    /\ now' = now + TickMs
    /\ UNCHANGED <<appVars, store, jobIndex, sseVars, netVars, simpleVars>>
    /\ UNCHANGED apiVars

\* The event-stream messages that report a failed job.
FailureMessages == {m \in PushMessages : m.type = "update" /\ m.status = "error"}

\* The controller across page loads, with jobs that stay in processing or fail.
NextStart ==
    \/ \E f \in DroppedFiles : HandleUpload(f)
    \/ \E resp \in UploadResponses : UploadSucceeded(resp)
    \/ SseOpen
    \/ \E data \in FailureMessages : HandleJobUpdate(data)
    \/ ResetState
    \/ Reload
    \/ \E i \in 1..3 : Resume(i)
    \/ AdvanceClock

SpecStart == Init /\ [][NextStart]_vars

\* The event-stream messages that report a finished job as 'done'.
DoneMessages == {m \in PushMessages : m.type = "update" /\ m.status = "done" /\ m.ready}

\* The controller with its poller, page reloads and the Resume buttons; the push
\* channel reports nothing but 'done'.
NextPoller ==
    \/ \E f \in {x \in DroppedFiles : ValidationCode(x) = Null} : HandleUpload(f)
    \/ \E resp \in UploadResponses : UploadSucceeded(resp)
    \/ SseOpen
    \/ \E data \in DoneMessages : HandleJobUpdate(data)
    \/ PollTick
    \/ \E j \in Jobs, b \in {x \in StatusBodies : x.error = Undefined} : PollResponse(j, b)
    \/ \E j \in Jobs, code \in FailureStatuses : PollFailed(j, code)
    \/ \E l \in lookups, r \in {Undefined} : LookupSettled(l, r)
    \/ ResetState
    \/ Reload
    \/ \E i \in 1..3 : Resume(i)

SpecPoller == Init /\ [][NextPoller]_vars

\* The status bodies of a job that is still being converted or has finished
\* without an error.
UnfailedBodies == {b \in StatusBodies : b.status # "error"}

\* The status body of a finished job: ready with status 'done'.
DoneBodies == {b \in StatusBodies : b.ready /\ b.status = "done"}

\* The poller on its own: the user uploads and then leaves the page alone, the
\* push channel opens or fails but delivers nothing, and the job does not fail.
NextSilent ==
    \/ \E f \in DroppedFiles : HandleUpload(f)
    \/ \E resp \in UploadResponses : UploadSucceeded(resp)
    \/ SseOpen
    \/ SseError
    \/ PollTick
    \/ \E j \in Jobs, b \in UnfailedBodies : PollResponse(j, b)
    \/ \E j \in Jobs, code \in {0, 500} : PollFailed(j, code)
    \/ \E l \in lookups, r \in LookupResults : LookupSettled(l, r)
    \/ AdvanceClock

\* Timers fire, requests complete, and the server answers a status request of a
\* job with ready and 'done' again and again once it can.
SpecSilent ==
    /\ Init
    /\ [][NextSilent]_vars
    /\ WF_vars(PollTick)
    /\ WF_vars(\E j \in Jobs, b \in UnfailedBodies : PollResponse(j, b))
    /\ SF_vars(\E j \in Jobs, b \in DoneBodies : PollResponse(j, b))
    /\ WF_vars(\E l \in lookups, r \in LookupResults : LookupSettled(l, r))

\* ------------------------------------------------- the job store on its own

\* Job ids of the store's callers: the jobs that are updated, purged and uploaded
\* again are 1..NumJobs; further uploads carry the next unused id.
StoreIds == 1..(MaxStoredJobs + NumJobs)

\* The largest element of a set of numbers, 0 for the empty set.
MaxOf(S) == IF S = {} THEN 0 ELSE CHOOSE x \in S : \A y \in S : y <= x

\* The ids listed in the job list.
Listed(idx) == {idx[i] : i \in 1..Len(idx)}

\* The id of a job the server creates next: one that storage has not seen.
NextUnusedId == 1 + MaxOf(DOMAIN store \cup Listed(jobIndex))

\* The response of POST /api/jobs for job id j.
ResponseFor(j) == [jobId |-> j, filename |-> "inv.pdf", execution |-> "exec1"]

\* uploadPdf after its request resolved with job id j: the record and the job list
\* are written.
StoreUpload(j) ==
    /\ j \in StoreIds
    /\ j \in Jobs \/ j = NextUnusedId
    /\ store' = PutStore(store, jobIndex, ResponseFor(j), now)
    /\ jobIndex' = PutIndex(jobIndex, ResponseFor(j))
    /\ UNCHANGED <<now, appVars, sseVars, netVars, simpleVars>>
    /\ UNCHANGED apiVars

\* Merge-updates reach the store for the jobs 1..NumUpdatedJobs.
NumUpdatedJobs == 1
UpdatedJobs == 1..NumUpdatedJobs

\* The updates the controller passes to updateStoredJob.
StoreUpdates ==
    [status : {"done"}, downloadUrl : PayloadUrls, ready : {TRUE}] \cup
    [status : {"error"}, error : {"bad scan"}]

\* updateStoredJob(j, updates)
StoreUpdate(j, updates) ==
    /\ store' = updateStoredJob(store, j, updates, now)
    /\ UNCHANGED <<jobIndex, now, appVars, sseVars, netVars, simpleVars>>
    /\ UNCHANGED apiVars

\* The maxAge arguments of cleanupStoredJobs.
MaxAges == {DefaultMaxAge, DefaultMaxAge \div 2}

\* cleanupStoredJobs(maxAge)
StoreSweep(maxAge) ==
    /\ store' = SweptStore(store, jobIndex, now, maxAge)
    /\ jobIndex' = activeJobs(store, jobIndex, now, maxAge)
    /\ UNCHANGED <<now, appVars, sseVars, netVars, simpleVars>>
    /\ UNCHANGED apiVars

\* The cleanup of the poller's 404 branch for job j.
StorePurge(j) ==
    /\ store' = RemoveItem(store, j)
    /\ jobIndex' = Without(jobIndex, j)
    /\ UNCHANGED <<now, appVars, sseVars, netVars, simpleVars>>
    /\ UNCHANGED apiVars

NextStore ==
    \/ \E j \in StoreIds : StoreUpload(j)
    \/ \E j \in UpdatedJobs, updates \in StoreUpdates : StoreUpdate(j, updates)
    \/ \E maxAge \in MaxAges : StoreSweep(maxAge)
    \/ \E j \in Jobs : StorePurge(j)
    \/ AdvanceClock

SpecStore == Init /\ [][NextStore]_vars

\* ------------------------------------------------- storage that refuses writes

\* The localStorage.setItem calls of uploadPdf, in order.
UploadWrites == {"record", "index"}

UnexpectedErrorMessage == "An unexpected error occurred. Please try again."

\* POST /api/jobs succeeded with a job id, and the setItem call `refused` of
\* uploadPdf throws (quota exceeded): the writes before it stay, uploadPdf rejects
\* with the storage error and handleUpload's catch runs.
UploadStoreRefused(resp, refused) ==
    /\ uploads > 0
    /\ uploads' = uploads - 1
    /\ resp.jobId # NoJob
    /\ IF refused = "record"
       THEN UNCHANGED store
       ELSE /\ ~InList(jobIndex, resp.jobId)
            /\ store' = PutStore(store, jobIndex, resp, now)
    /\ isUploading' = FALSE
    /\ isPolling' = FALSE
    /\ error' = UnexpectedErrorMessage
    /\ UNCHANGED <<jobId, status, filename, downloadUrl, execution, storedJobs>>
    /\ UNCHANGED <<jobIndex, now, sseVars, polls, lookups, simpleVars>>
    /\ UNCHANGED apiVars

\* handleJobUpdate(data) with the setItem of updateStoredJob refused: updateStoredJob
\* catches and logs, the record stays as it was.
HandleJobUpdateRefused(data) ==
    /\ sse.readyState = "OPEN"
    /\ LET out == JobUpdateOutcome(data, sse.job)
       IN  /\ ~out.awaitsLookup
           /\ out.store # store
           /\ status' = out.status
           /\ isPolling' = out.isPolling
           /\ error' = out.error
    /\ UNCHANGED <<jobId, filename, isUploading, downloadUrl, execution, storedJobs>>
    /\ UNCHANGED <<storeVars, sseVars, netVars, simpleVars>>
    /\ UNCHANGED apiVars

\* The controller on a storage that may refuse writes.
NextRefusing ==
    \/ \E f \in DroppedFiles : HandleUpload(f)
    \/ \E resp \in UploadResponses : UploadSucceeded(resp)
    \/ \E resp \in UploadResponses, refused \in UploadWrites : UploadStoreRefused(resp, refused)
    \/ SseOpen
    \/ \E data \in FailureMessages : HandleJobUpdate(data)
    \/ \E data \in FailureMessages : HandleJobUpdateRefused(data)
    \/ ResetState
    \/ TryAgain

SpecRefusing == Init /\ [][NextRefusing]_vars

\* ------------------------------------------------- the api module on its own

\* HTTP status codes of the responses.
HttpStatuses == {200, 201, 204, 400, 401, 404, 413, 500, 502, 503}

\* response.ok
Ok(st) == st >= 200 /\ st <= 299

\* The error.message and error.code the server puts in an error body.
ErrorMessages == {Undefined, "", "Job not found"}
ErrorCodes == {Undefined, "", "JOB_NOT_FOUND"}

\* What fetch gives apiRequest: no response at all (fetch rejects), or a response
\* with its status, whether its content-type includes application/json, and its
\* body: text that is not JSON ("malformed"), the JSON value null, or a JSON object
\* whose error member has the given message and code.
FetchOutcomes ==
    {[kind |-> "no_response"]} \cup
    [kind : {"response"}, status : HttpStatuses, json : BOOLEAN,
     body : {"malformed", "null", "object"}, message : ErrorMessages, code : ErrorCodes]

\* `HTTP ${response.status}`
HttpMessage(st) ==
    CASE st = 200 -> "HTTP 200" [] st = 201 -> "HTTP 201" [] st = 204 -> "HTTP 204"
      [] st = 400 -> "HTTP 400" [] st = 401 -> "HTTP 401" [] st = 404 -> "HTTP 404"
      [] st = 413 -> "HTTP 413" [] st = 500 -> "HTTP 500" [] st = 502 -> "HTTP 502"
      [] st = 503 -> "HTTP 503"

\* new ApiError(message, status, code), thrown
Thrown(message, st, code) ==
    [kind |-> "ApiError", message |-> message, status |-> st, code |-> code]

\* The catch of apiRequest for an error that is no ApiError.
NetworkError(message) == Thrown(Or(message, "Network error"), 0, "NETWORK_ERROR")

\* data?.error || {} : the error member is read from a JSON object only.
ErrorMember(r) ==
    IF r.json /\ r.body = "object"
    THEN [message |-> r.message, code |-> r.code]
    ELSE [message |-> Undefined, code |-> Undefined]

\* apiRequest(url, options), given what fetch does: what it returns or throws.
apiRequest(r) ==
    IF r.kind = "no_response" THEN NetworkError("Failed to fetch")
    ELSE IF r.json /\ r.body = "malformed" THEN NetworkError("Unexpected token")
    ELSE IF ~Ok(r.status)
    THEN Thrown(Or(ErrorMember(r).message, HttpMessage(r.status)), r.status,
                Or(ErrorMember(r).code, "HTTP_ERROR"))
    ELSE [kind |-> "returned", json |-> r.json, body |-> r.body]

\* apiRequest is called and settles.
ApiRequestSettled(r) ==
    /\ apiCall' = [kind |-> "apiRequest", fetch |-> r]
    /\ apiResult' = apiRequest(r)
    /\ UNCHANGED <<ctlVars, simpleVars>>

\* The files uploadPdf can be called with, and no file.
ApiFiles == DroppedFiles \cup {NoFile}

\* uploadPdf(file) up to its request: it throws the validation error, or issues
\* POST /api/jobs.
UploadPdfCalled(f) ==
    /\ apiCall' = [kind |-> "uploadPdf", file |-> f]
    /\ apiResult' =
          IF ValidationCode(f) # Null
          THEN Thrown(ValidationMessage(ValidationCode(f)), 400, ValidationCode(f))
          ELSE [kind |-> "requested"]
    /\ UNCHANGED <<ctlVars, simpleVars>>

NextApi ==
    \/ \E r \in FetchOutcomes : ApiRequestSettled(r)
    \/ \E f \in ApiFiles : UploadPdfCalled(f)

SpecApi == Init /\ [][NextApi]_vars

\* ------------------------------------------------------------------- claims

\* A push message or a poll response for job j is applied in this step: one of the
\* two handlers runs its first part, or its continuation after the file lookup.
UpdateStepFor(j) ==
    \/ sse.job = j /\ \E data \in PushMessages : HandleJobUpdate(data)
    \/ \E b \in StatusBodies : PollResponse(j, b)
    \/ \E l \in lookups, r \in LookupResults : l.job = j /\ LookupSettled(l, r)

UpdateStep == \E j \in Jobs : UpdateStepFor(j)

PersistedTerminal(j) == j \in DOMAIN store /\ store[j].status \in Terminal

\* C1: once the persisted status of a job is 'done' or 'error', no push message and
\* no poll response changes it (the first terminal write wins).
C1_FirstTerminalWriteWins ==
    [][\A j \in Jobs :
          (PersistedTerminal(j) /\ UpdateStep)
              => (j \in DOMAIN store' /\ store'[j].status = store[j].status)]_vars

\* C2: the in-memory status only moves idle -> processing -> {done, error}; a
\* terminal status is changed by no push message and no poll response, and idle is
\* re-entered only through the reset operation.
C2_StatusStateMachine ==
    [][/\ (status \in Terminal /\ UpdateStep) => status' = status
       /\ (status' # status /\ UpdateStep) => (status = "processing" /\ status' \in Terminal)
       /\ (status # Null /\ status' = Null)
             => (ResetState \/ \E j \in Jobs : PollFailed(j, 404))]_vars

\* An update reports a terminal status: 'error', or 'done' with the artifact ready.
ReportsTerminal(b) == b.status = "error" \/ (b.status = "done" /\ b.ready)

\* C3: the persisted status of a job ends terminal if and only if some update
\* reported a terminal status: an update reporting one leaves the record terminal
\* (at once, or when its pending continuation has run), and a record only becomes
\* terminal through such an update.
C3_TerminalIffReported ==
    [][\A j \in Jobs :
          /\ \A b \in StatusBodies :
                (/\ ReportsTerminal(b)
                 /\ j \in DOMAIN store
                 /\ \/ sse.job = j /\ HandleJobUpdate(Message("update", b))
                    \/ PollResponse(j, b))
                    => \/ store'[j].status \in Terminal
                       \/ \E l \in lookups' : l.job = j
          /\ (j \in DOMAIN store /\ ~PersistedTerminal(j) /\ PersistedTerminal(j)')
                => \/ \E b \in StatusBodies :
                         /\ ReportsTerminal(b)
                         /\ \/ sse.job = j /\ HandleJobUpdate(Message("update", b))
                            \/ PollResponse(j, b)
                   \/ \E l \in lookups, r \in LookupResults : l.job = j /\ LookupSettled(l, r)]_vars

\* C4: no push message and no poll response of a job that is not (or no longer)
\* the active one changes the in-memory state or the persisted store.
C4_NoStaleUpdateApplied ==
    [][\A j \in Jobs :
          (j # jobId /\ (UpdateStepFor(j) \/ \E code \in FailureStatuses : PollFailed(j, code)))
              => UNCHANGED <<appVars, store, jobIndex>>]_vars

\* C5: once the active job's state is terminal, no event-stream connection for it
\* remains open and no poll timer for it remains scheduled.
C5_TerminalDisarmsObservers ==
    (jobId # NoJob /\ status \in Terminal)
        => (~PollTimerArmed /\ ~(sse.job = jobId /\ sse.readyState \in {"CONNECTING", "OPEN"}))

\* C6: the same update payload has the same effect on the in-memory state and on
\* the persisted store whether a push message or a poll response delivers it.
C6_SameOutcomeBothPaths ==
    \A j \in Jobs :
        (jobId = j /\ sse.job = j /\ sse.readyState = "OPEN" /\ polls[j] > 0)
            => \A b \in StatusBodies :
                  Message("update", b) \in PushMessages
                      => JobUpdateOutcome(Message("update", b), j) = PollOutcome(b, j)

JobStatuses == {"processing", "done", "error"}

\* C7: the status of the active job, in memory and persisted, is always one of
\* processing / done / error (or null in memory), whatever the server delivers.
C7_StatusInVocabulary ==
    /\ status \in JobStatuses \cup {Null}
    /\ \A j \in DOMAIN store : store[j].status \in JobStatuses

\* C8: when the poller's continuation for a finished active job has looked the file
\* up and found it, polling is stopped and the record holds status 'done', ready and
\* the absolute download URL that is exposed in memory.
C8_PollDonePersistsAbsoluteUrl ==
    [][\A l \in lookups :
          (l.src = "poll" /\ l.job = jobId /\ LookupSettled(l, RelativeUrl))
              => /\ ~isPolling'
                 /\ store'[l.job].status = "done"
                 /\ store'[l.job].ready = TRUE
                 /\ "downloadUrl" \in DOMAIN store'[l.job]
                 /\ store'[l.job].downloadUrl = downloadUrl']_vars

\* C9: a 404 answer to a status poll of the active job stops polling, removes the
\* job's record and its index entry, resets the in-memory state to the pre-upload
\* state and surfaces the message that mentions expiration.
C9_NotFoundPurgesAndResets ==
    [][\A j \in Jobs :
          (j = jobId /\ PollFailed(j, 404))
              => /\ ~PollTimerArmed'
                 /\ ~isPolling'
                 /\ j \notin DOMAIN store'
                 /\ ~InList(jobIndex', j)
                 /\ jobId' = NoJob /\ status' = Null /\ filename' = Null
                 /\ downloadUrl' = Null /\ execution' = Null /\ ~isUploading'
                 /\ error' = ExpiredMessage]_vars

\* C9 witness: the expiration message is shown in the idle state while the purged
\* job is gone from storage and index and another job's record is still stored.
C9_Witness ==
    /\ error = ExpiredMessage /\ jobId = NoJob /\ status = Null /\ ~isPolling
    /\ 1 \notin DOMAIN store /\ jobIndex = <<2>> /\ 2 \in DOMAIN store

\* C10: in both pollers, a status request that fails with anything other than 404
\* while the attempt ceiling is not reached does not stop polling: the controller's
\* interval stays armed, and the simple flow's chain stays alive to issue a later
\* request.
C10_TransientFailureKeepsPolling ==
    [][/\ \A j \in Jobs, code \in FailureStatuses \ {404} :
             (j = jobId /\ PollTimerArmed /\ PollFailed(j, code)) => PollTimerArmed'
       /\ \A c \in sChains :
             (c.attempts < maxAttempts /\ SimplePollFailed(c, "Failed to fetch"))
                 => \E d \in sChains' : d.job = c.job]_vars

\* The record of job j holds status 'error' with error text e.
PersistedError(j, e) ==
    /\ j \in DOMAIN store
    /\ store[j].status = "error"
    /\ "error" \in DOMAIN store[j]
    /\ store[j].error = e

\* C11: when the event stream delivered {type:'update', status:'error', error:e} for
\* the active job and no status request of the job is in flight, status 'error' with
\* error e is final, in memory and persisted, for as long as the job stays the active
\* one, and no status request is issued for the job any more.
C11_PushErrorIsFinal ==
    [][\A j \in Jobs :
          (/\ jobId = j /\ status = "error" /\ error = "bad scan"
           /\ PersistedError(j, "bad scan")
           /\ polls[j] = 0
           /\ \A l \in lookups : l.job # j
           /\ ~ResetState
           /\ ~(\E resp \in UploadResponses : UploadSucceeded(resp)))
              => /\ jobId' = j /\ status' = "error" /\ error' = "bad scan"
                 /\ PersistedError(j, "bad scan")'
                 /\ polls'[j] = 0]_vars

\* The listed jobs whose record has status 'processing'.
StoredProcessing(st, idx) ==
    {idx[i] : i \in {k \in 1..Len(idx) : idx[k] \in DOMAIN st /\ st[idx[k]].status = "processing"}}

\* C12: at application start a stored job is made the active job, with listener and
\* poller armed, exactly when one and only one stored job (of those the start-up
\* sweep keeps) has status 'processing'; it is then that job.
C12_ResumesIffExactlyOneProcessing ==
    [][Reload =>
          LET processing == StoredProcessing(store', jobIndex')
          IN  IF Cardinality(processing) = 1
              THEN /\ jobId' \in processing
                   /\ PollTimerArmed'
                   /\ sse'.job = jobId'
              ELSE /\ jobId' = NoJob
                   /\ ~PollTimerArmed'
                   /\ sse' = NoSse]_vars

\* C13: the reset operation clears the in-memory job id, status, error and download
\* URL and disarms polling, and leaves every stored record and the job index as
\* they were.
C13_ResetKeepsHistory ==
    [][ResetState =>
          /\ jobId' = NoJob /\ status' = Null /\ error' = Null /\ downloadUrl' = Null
          /\ ~isPolling' /\ ~PollTimerArmed'
          /\ store' = store
          /\ jobIndex' = jobIndex]_vars

\* C13 witness: after a reset nothing is active and no error is shown, while the
\* record of the failed job and its index entry are still stored.
C13_Witness ==
    /\ jobId = NoJob /\ status = Null /\ error = Null /\ downloadUrl = Null /\ ~isPolling
    /\ jobIndex = <<1>>
    /\ PersistedError(1, "bad scan")

\* The number of entries of list that equal id.
Occurrences(list, id) == Cardinality({i \in 1..Len(list) : list[i] = id})

\* C14: after a successful upload for which the server returns job id j, the record
\* job_j exists with status 'processing' and j is listed once, at the front of the
\* job index, also when j was listed before.
C14_UploadPutsJobFirst ==
    [][\A resp \in UploadResponses :
          (resp.jobId # NoJob /\ UploadSucceeded(resp))
              => /\ resp.jobId \in DOMAIN store'
                 /\ store'[resp.jobId].status = "processing"
                 /\ Occurrences(jobIndex', resp.jobId) = 1
                 /\ jobIndex'[1] = resp.jobId]_vars

\* C15: every id in the job index has a stored record, whatever sequence of
\* uploads (with eviction), merge-updates, age sweeps and 404 purges ran.
C15_IndexedJobsHaveRecords ==
    \A i \in 1..Len(jobIndex) : jobIndex[i] \in DOMAIN store

\* C15 witness: after eleven uploads, an eviction and a later merge-update of the
\* evicted job, the index is full and the evicted job has a record but no entry.
C15_Witness ==
    /\ Len(jobIndex) = MaxStoredJobs
    /\ 1 \notin Listed(jobIndex)
    /\ 1 \in DOMAIN store
    /\ 11 \in Listed(jobIndex)

\* C16: the job index holds at most 10 ids and no id twice.
C16_IndexBoundedAndDistinct ==
    /\ Len(jobIndex) <= 10
    /\ \A i, k \in 1..Len(jobIndex) : jobIndex[i] = jobIndex[k] => i = k

\* C16 witness: twelve uploads were stored and the index holds the last ten.
C16_Witness ==
    /\ Len(jobIndex) = 10
    /\ jobIndex[1] = 12
    /\ jobIndex[10] = 3

\* C17: storing an id that is not listed while the index holds 10 ids removes the
\* last listed (least recent) id and its record, and nothing else: the new id is
\* first, followed by the other nine in their order, and every other record stays.
C17_EvictsExactlyTheOldest ==
    [][\A j \in StoreIds :
          (Len(jobIndex) = 10 /\ j \notin Listed(jobIndex) /\ StoreUpload(j))
              => /\ jobIndex' = <<j>> \o SubSeq(jobIndex, 1, 9)
                 /\ DOMAIN store' = (DOMAIN store \cup {j}) \ {jobIndex[10]}
                 /\ \A k \in DOMAIN store' \ {j} : store'[k] = store[k]]_vars

\* C17 witness: the eleventh id was stored; job 1 and its record are gone.
C17_Witness ==
    /\ jobIndex = <<11, 10, 9, 8, 7, 6, 5, 4, 3, 2>>
    /\ DOMAIN store = 2..11

\* The value of field f of a parsed record, undefined when it has no such field.
Field(r, f) == IF f \in DOMAIN r THEN r[f] ELSE Undefined

\* C18: after update(id, partial), get(id) returns a record in which every field of
\* partial has its new value, every other field stored before is unchanged and
\* updatedAt is the time of the update; for an absent record it holds the fields
\* of partial and updatedAt only.
C18_UpdateMergesFields ==
    [][\A j \in UpdatedJobs, updates \in StoreUpdates :
          StoreUpdate(j, updates)
              => /\ j \in DOMAIN store'
                 /\ \A f \in DOMAIN updates : Field(store'[j], f) = updates[f]
                 /\ store'[j].updatedAt = now
                 /\ IF j \notin DOMAIN store
                    THEN DOMAIN store'[j] \subseteq DOMAIN updates \cup {"updatedAt"}
                    ELSE \A f \in DOMAIN store[j] \ (DOMAIN updates \cup {"updatedAt"}) :
                            f \in DOMAIN store'[j] /\ store'[j][f] = store[j][f]]_vars

\* C18 witness: the record of job 1, created at time 0, was updated a day later to
\* 'error' and still has the fields of the upload.
C18_Witness ==
    /\ 1 \in DOMAIN store
    /\ DOMAIN store[1] = {"jobId", "filename", "status", "createdAt", "execution", "error",
                          "updatedAt"}
    /\ store[1].status = "error"
    /\ store[1].filename = "inv.pdf"
    /\ store[1].createdAt = 0
    /\ store[1].updatedAt = DefaultMaxAge

\* C19: sweepExpired(maxAge) removes every record whose createdAt is older than
\* now - maxAge from storage, from the job index and from listAll(), keeps every
\* listed record that is not, and leaves the index listing exactly the survivors in
\* their order.
C19_SweepRemovesExactlyTheExpired ==
    [][\A maxAge \in MaxAges :
          StoreSweep(maxAge)
              => /\ \A id \in DOMAIN store :
                       ("createdAt" \in DOMAIN store[id] /\ store[id].createdAt < now - maxAge)
                           => /\ id \notin DOMAIN store'
                              /\ id \notin Listed(jobIndex')
                              /\ \A i \in 1..Len(getAllStoredJobs(store', jobIndex')) :
                                    getAllStoredJobs(store', jobIndex')[i].jobId # id
                 /\ \A id \in Listed(jobIndex) \cap DOMAIN store :
                       ("createdAt" \in DOMAIN store[id] /\ store[id].createdAt >= now - maxAge)
                           => /\ id \in DOMAIN store'
                              /\ store'[id] = store[id]
                              /\ id \in Listed(jobIndex')
                 /\ jobIndex' = SelectSeq(jobIndex, LAMBDA id : id \in Listed(jobIndex'))
                 /\ Listed(jobIndex') \subseteq DOMAIN store']_vars

\* C20: a store operation whose write is refused does not throw to its caller: the
\* user-facing flow goes on as if the write had happened. After an upload the server
\* accepted, the job is the active one and no error is shown; after a push update,
\* the update is shown.
C20_StoreFailuresDoNotThrow ==
    [][/\ \A resp \in UploadResponses, refused \in UploadWrites :
             UploadStoreRefused(resp, refused)
                 => /\ jobId' = resp.jobId
                    /\ status' = "processing"
                    /\ Falsy(error')
       /\ \A data \in FailureMessages :
             HandleJobUpdateRefused(data)
                 => /\ status' = data.status
                    /\ error' = data.error]_vars

\* The server supplied value v in its error body.
Supplied(r, v) == r.json /\ r.body = "object" /\ ~Falsy(v)

\* C21: for every non-2xx response apiRequest throws an ApiError with the HTTP
\* status, the server's error.code or 'HTTP_ERROR', and the server's error.message
\* or 'HTTP <status>', whatever the body is; for every 2xx response with a body that
\* decodes, it returns the body.
C21_HttpErrorsCarryStatusAndCode ==
    (apiCall.kind = "apiRequest" /\ apiCall.fetch.kind = "response")
        => LET r == apiCall.fetch
           IN  IF Ok(r.status)
               THEN (r.json => r.body # "malformed")
                       => apiResult = [kind |-> "returned", json |-> r.json, body |-> r.body]
               ELSE /\ apiResult.kind = "ApiError"
                    /\ apiResult.status = r.status
                    /\ apiResult.code =
                          IF Supplied(r, r.code) THEN r.code ELSE "HTTP_ERROR"
                    /\ apiResult.message =
                          IF Supplied(r, r.message) THEN r.message ELSE HttpMessage(r.status)

\* C22: apiRequest throws an error with status 0 and code 'NETWORK_ERROR' exactly
\* when no response was received; when one was, it returns the body or throws an
\* error with the nonzero status of the response.
C22_StatusZeroMeansNoResponse ==
    apiCall.kind = "apiRequest"
        => /\ (apiResult.kind = "ApiError" /\ apiResult.status = 0)
                 <=> apiCall.fetch.kind = "no_response"
           /\ apiCall.fetch.kind = "no_response" => apiResult.code = "NETWORK_ERROR"
           /\ apiCall.fetch.kind = "response"
                 => \/ apiResult.kind = "returned"
                    \/ apiResult.kind = "ApiError" /\ apiResult.status = apiCall.fetch.status

\* C23: uploadPdf rejects, without issuing a request, no file with NO_FILE, a file
\* that is not a PDF with INVALID_FILE_TYPE and a file of more than 20 * 1024 * 1024
\* bytes with FILE_TOO_LARGE (a file that is both, with one of the two codes); a PDF
\* of at most that size is submitted.
C23_UploadValidation ==
    apiCall.kind = "uploadPdf"
        => LET f == apiCall.file
               wrongType == f.type # "application/pdf"
               tooLarge == f.size > 20 * 1024 * 1024
           IN  IF f = NoFile
               THEN apiResult.kind = "ApiError" /\ apiResult.code = "NO_FILE"
               ELSE /\ (wrongType /\ ~tooLarge)
                          => apiResult.kind = "ApiError" /\ apiResult.code = "INVALID_FILE_TYPE"
                    /\ (tooLarge /\ ~wrongType)
                          => apiResult.kind = "ApiError" /\ apiResult.code = "FILE_TOO_LARGE"
                    /\ (tooLarge /\ wrongType)
                          => /\ apiResult.kind = "ApiError"
                             /\ apiResult.code \in {"INVALID_FILE_TYPE", "FILE_TOO_LARGE"}
                    /\ (~tooLarge /\ ~wrongType) => apiResult.kind = "requested"

\* C23 witness: a PDF of exactly 20 MiB was passed to uploadPdf and submitted.
C23_Witness ==
    /\ apiCall.kind = "uploadPdf"
    /\ apiCall.file = [type |-> "application/pdf", size |-> 20971520]
    /\ apiResult.kind = "requested"

\* C24: in every upload flow a file of more than 20 MiB is refused before any
\* request is issued. Stated of the simple flow: handleUpload on a selected file
\* larger than 20 * 1024 * 1024 bytes leaves no upload request in flight and
\* sets an error.
C24_OversizedFileNeverSubmitted ==
    [][(sFile # NoFile /\ sFile.size > 20 * 1024 * 1024 /\ SimpleHandleUpload)
          => (~sUploading' /\ sError' # Null)]_vars

\* C25: a failed upload (refused by the dropzone or by uploadPdf's validation, or
\* a transport failure of the request) and a status request that failed with
\* status 0 leave an error message set and leave every stored job record and the
\* job index as they were.
C25_FailuresSurfaceAndKeepStore ==
    [][((\/ \E f \in DroppedFiles : DropRejected(f)
         \/ \E f \in DroppedFiles : (ValidationCode(f) # Null /\ HandleUpload(f))
         \/ \E msg \in {"Failed to fetch"} : UploadFailed(msg)
         \/ \E j \in Jobs : PollFailed(j, 0))
          => (error' # Null /\ store' = store /\ jobIndex' = jobIndex))]_vars

\* C26: when the event stream of the active job reports an error and fewer than
\* maxRetries attempts have been made, a reconnect is scheduled: the attempt is
\* counted, or a connection for the same job is being opened again.
C26_ErrorSchedulesReconnect ==
    [][(SseError /\ connectionAttempts < 3)
          => (\/ connectionAttempts' = connectionAttempts + 1
              \/ sse' = [job |-> sse.job, readyState |-> "CONNECTING"])]_vars

\* C27: every live event-stream connection is the connection of the job the
\* controller is subscribed to (none is left for a job id that was left or after
\* the job id became null), a change of the job id leaves no live connection of the
\* previous job, and the update callback runs only for the subscribed job.
C27_TeardownClosesConnections ==
    /\ [](sse.readyState \in {"CONNECTING", "OPEN"} => (jobId # NoJob /\ sse.job = jobId))
    /\ [][(jobId' # jobId /\ sse.readyState \in {"CONNECTING", "OPEN"})
             => ~(sse'.job = sse.job /\ sse'.readyState \in {"CONNECTING", "OPEN"})]_vars
    /\ [][(\E data \in FailureMessages : HandleJobUpdate(data)) => sse.job = jobId]_vars

\* C27 witness: job 2 is subscribed with an open connection after job 1 was the
\* subscribed job (its record is stored), and no connection of job 1 is left.
C27_Witness ==
    /\ jobId = 2
    /\ sse = [job |-> 2, readyState |-> "OPEN"]
    /\ 1 \in DOMAIN store
    /\ status = "processing"

\* The status requests a poll chain of the simple flow has issued so far: one per
\* counted attempt, and the one in flight.
RequestsIssued(c) == c.attempts + (IF c.phase = "request" THEN 1 ELSE 0)

\* C28: in the simple flow a poll chain issues at most 30 status requests for
\* its job.
C28_AtMostThirtyStatusRequests ==
    \A c \in sChains : RequestsIssued(c) <= 30

\* C29: the name a file is saved under ends with exactly one '.csv' suffix: it
\* ends with '.csv', and what precedes that suffix does not end with '.csv'.
C29_SavedNameHasOneCsvSuffix ==
    sSavedAs # <<>>
        => /\ EndsWithExt(sSavedAs, {".csv"})
           /\ ~EndsWithExt(ButLast(sSavedAs), {".csv"})

\* C30: a download with the download name left blank saves the file under the
\* name of the uploaded file with its extension replaced by '.csv'.
C30_BlankNameUsesOriginalFileName ==
    [][(HandleDownload(TRUE) /\ TrimIsEmpty(sDownloadName))
          => sSavedAs' = ReplaceSourceExt(sLastUploadedFileName)]_vars

\* C31: a status request of the fallback poller is issued for job j only while j
\* is the active job id, the status is 'processing' and polling is armed; and
\* polling becomes armed only by an upload success, the start-up resume or the
\* Resume button.
C31_PollsOnlyWhileArmed ==
    /\ [][\A j \in Jobs :
             polls'[j] > polls[j] => (jobId = j /\ status = "processing" /\ isPolling)]_vars
    /\ [][(~isPolling /\ isPolling')
             => (\/ \E resp \in UploadResponses : UploadSucceeded(resp)
                 \/ Reload
                 \/ \E i \in 1..3 : Resume(i))]_vars

\* C31 witness: a status request is in flight for a job that was resumed after a
\* page load.
C31_Witness ==
    /\ jobId # NoJob
    /\ polls[jobId] > 0
    /\ storedJobs # <<>>
    /\ status = "processing"

\* C32: at any time at most one EventSource is not closed, and it is the one
\* held in eventSourceRef.current.
C32_AtMostOneOpenConnection ==
    /\ openSources <= 1
    /\ openSources = LiveCount(sse)

\* C32 witness: the connection of job 2 is the only open one after job 1 had a
\* connection of its own.
C32_Witness ==
    /\ openSources = 1
    /\ sse = [job |-> 2, readyState |-> "OPEN"]
    /\ 1 \in DOMAIN store
    /\ jobId = 2

\* C33: when polling is armed for the active processing job j and the status
\* requests of j come to be answered with ready and 'done', then eventually, and
\* from then on, the status is 'done', the record of j has status 'done', no
\* status request of j is in flight and the poll timer is gone.
C33_PollerAloneFinishesJob ==
    \A j \in Jobs :
        (jobId = j /\ isPolling /\ status = "processing")
            ~> [](/\ status = "done"
                  /\ j \in DOMAIN store
                  /\ store[j].status = "done"
                  /\ polls[j] = 0
                  /\ ~PollTimerArmed)

\* C33 witness: the poller finished job 1 while its event stream had failed.
C33_Witness ==
    /\ jobId = 1
    /\ status = "done"
    /\ ~isPolling
    /\ sse.readyState = "CLOSED"
    /\ 1 \in DOMAIN store
    /\ store[1].status = "done"
    /\ polls[1] = 0

\* C34: whenever the in-memory status is 'processing', a job id is set and polling
\* is armed.
C34_ProcessingIsObserved ==
    status = "processing" => (jobId # NoJob /\ isPolling)

\* C35: the fallback poller has at most one status request in flight for a job at
\* any time.
C35_OneStatusRequestInFlight ==
    \A j \in Jobs : polls[j] <= 1

\* C36: every stored job record has its id in the job list, hence at most
\* MaxStoredJobs records are stored.
C36_EveryRecordIsIndexed ==
    /\ \A id \in DOMAIN store : InList(jobIndex, id)
    /\ Cardinality(DOMAIN store) <= 10

\* C37: cleanupStoredJobs removes a listed job record only if the job is at
\* least maxAge old and its status is no longer 'processing'.
C37_SweepKeepsProcessingJobs ==
    [][\A maxAge \in MaxAges :
          StoreSweep(maxAge)
              => \A id \in Listed(jobIndex) \cap DOMAIN store :
                    (id \notin DOMAIN store' /\ "createdAt" \in DOMAIN store[id])
                        => /\ store[id].createdAt <= now - maxAge
                           /\ Field(store[id], "status") # "processing"]_vars

\* C38: in the simple flow, whenever the download action is offered (downloadUrl
\* is set), handleDownload acts: it saves the file or sets an error.
C38_OfferedDownloadActs ==
    ~Falsy(sDownloadUrl) => ENABLED (\E ok \in BOOLEAN : HandleDownload(ok))

\* C39: in the simple flow at most one poll chain exists, isUploading and
\* isProcessing are never both true, a set downloadUrl implies that neither is
\* true, and no file is selected, no upload is started and no reset happens while
\* an upload request or a poll chain is active.
C39_OneChainAndExclusiveFlags ==
    /\ [](/\ Cardinality(sChains) <= 1
          /\ ~(sIsUploading /\ sIsProcessing)
          /\ ~Falsy(sDownloadUrl) => (~sIsUploading /\ ~sIsProcessing))
    /\ [][(\/ SimpleHandleUpload
           \/ HandleReset
           \/ \E f \in SimpleFiles : HandleFileSelectFromInput(f))
             => (sChains = {} /\ ~sUploading)]_vars

\* C39 witness: the poll chain of a second job is waiting for its timer after the
\* file of an earlier job was saved.
C39_Witness ==
    /\ sSavedAs # <<>>
    /\ sIsProcessing
    /\ \E c \in sChains : c.phase = "timer" /\ c.attempts > 0

====
